---- MODULE Spec2Model ----
(***************************************************************************)
(* Model of src/src/process_json_response.py: the Reference Index Builder  *)
(* (load_reference_tables), the Row Extractor (extract_container_info) and *)
(* the run that joins them (process_json_response).                        *)
(*                                                                         *)
(* A Python dict is a TLA+ function whose DOMAIN is the dict's key set; a  *)
(* Python list is a sequence.  A call either returns a value or raises:    *)
(* Return(v) and Raise(e).                                                 *)
(***************************************************************************)
EXTENDS Integers, Sequences, FiniteSets, TLC

VARIABLES json_data, reference, outfile, pc, index, row, exception, loads

vars == <<json_data, reference, outfile, pc, index, row, exception, loads>>

----------------------------------------------------------------------------
(* Bounds of the checked input space *)

MaxIncluded == 3

MaxData == 2

----------------------------------------------------------------------------
(* Python call results *)

Return(v) == [exception |-> "None", value |-> v]

Raise(e) == [exception |-> e]

Raised(r) == r.exception # "None"

EmptyDict == << >>

----------------------------------------------------------------------------
(* Module constants, lines 24-30 *)

CSV_HEADER ==
    << "Chemical Name", "CAS Number", "Group Name", "Location (space)",
       "Physical State", "chemical_formula", "Amount", "Units",
       "Container ID", "Manufacturer", "Product Name", "Product Number",
       "Date Received", "Expiration Date" >>

PHYSICAL_STATES == ("S" :> "Solid") @@ ("L" :> "Liquid") @@ ("G" :> "Gas")

----------------------------------------------------------------------------
(* load_reference_tables, lines 82-126 *)

\* The attribute lists of the three inner comprehensions (lines 100-103, 112, 121)
ChemdbFields ==
    {"field_chemdb_cas_number", "field_chemdb_chemical_formula",
     "field_chemdb_physical_state"}

TitleFields == {"title"}

\* The inner comprehension without its filter: every attribute is kept
FilterAttributesKeepAll(attributes, fields) ==
    [title \in DOMAIN attributes |-> attributes[title]]

\* {title: value for title, value in attributes.items() if title in fields}
FilterAttributes(attributes, fields) ==
    [title \in (DOMAIN attributes) \cap fields |-> attributes[title]]

\* setdefault instead of assignment: the first record of an identifier stays
DictPutKeepFirst(d, key, value) ==
    [k \in (DOMAIN d) \cup {key} |-> IF k \in DOMAIN d THEN d[k] ELSE value]

\* d[key] = value of a dict under construction: a later key replaces an earlier one
DictPut(d, key, value) ==
    [k \in (DOMAIN d) \cup {key} |-> IF k = key THEN value ELSE d[k]]

\* {info['id']: {...} for info in included if info['type'] == kind}, built in
\* collection order over the first n records
RECURSIVE KindMapping(_, _, _, _)
KindMapping(included, kind, fields, n) ==
    IF n = 0 THEN EmptyDict
    ELSE LET built == KindMapping(included, kind, fields, n - 1)
             supplementary_info == included[n]
         IN  IF supplementary_info.type = kind
             THEN DictPut(built, supplementary_info.id,
                          FilterAttributes(supplementary_info.attributes, fields))
             ELSE built

\* data.get('included', []) instead of data['included']: a document without
\* the collection gives three empty mappings
load_reference_tables_get(data) ==
    LET included == IF "included" \in DOMAIN data THEN data["included"] ELSE << >> IN
    Return([chemdb_type |-> KindMapping(included, "node--chemdb_type",
                                        ChemdbFields, Len(included)),
            space       |-> KindMapping(included, "node--space",
                                        TitleFields, Len(included)),
            laboratory  |-> KindMapping(included, "node--laboratory",
                                        TitleFields, Len(included))])

load_reference_tables(data) ==
    IF "included" \notin DOMAIN data THEN Raise("KeyError")
    ELSE LET included == data["included"] IN
         Return([chemdb_type |-> KindMapping(included, "node--chemdb_type",
                                             ChemdbFields, Len(included)),
                 space       |-> KindMapping(included, "node--space",
                                             TitleFields, Len(included)),
                 laboratory  |-> KindMapping(included, "node--laboratory",
                                             TitleFields, Len(included))])

----------------------------------------------------------------------------
(* extract_container_info, lines 33-79 *)

\* The attributes the returned dict reads from row_data['attributes'], lines 65-78
ContainerFields ==
    {"field_chemical_product_name", "field_chemical_amount",
     "field_chemical_unit_of_measure", "field_chemical_container_id",
     "field_chemical_product_number", "field_chemical_received",
     "field_chemical_expiration"}

\* The dict literal with Manufacturer read from another attribute
OutputRowOwnManufacturer(attributes, cas_number, owner, location, physical_state, chemical_formula) ==
    ("Chemical Name"    :> attributes["field_chemical_product_name"]) @@
    ("CAS Number"       :> cas_number) @@
    ("Group Name"       :> owner) @@
    ("Location (space)" :> location) @@
    ("Physical State"   :> physical_state) @@
    ("chemical_formula" :> chemical_formula) @@
    ("Amount"           :> attributes["field_chemical_amount"]) @@
    ("Units"            :> attributes["field_chemical_unit_of_measure"]) @@
    ("Container ID"     :> attributes["field_chemical_container_id"]) @@
    ("Manufacturer"     :> attributes["field_chemical_product_number"]) @@
    ("Product Name"     :> attributes["field_chemical_product_name"]) @@
    ("Product Number"   :> attributes["field_chemical_product_number"]) @@
    ("Date Received"    :> attributes["field_chemical_received"]) @@
    ("Expiration Date"  :> attributes["field_chemical_expiration"])

\* The dict literal of lines 64-79
OutputRow(attributes, cas_number, owner, location, physical_state, chemical_formula) ==
    ("Chemical Name"    :> attributes["field_chemical_product_name"]) @@
    ("CAS Number"       :> cas_number) @@
    ("Group Name"       :> owner) @@
    ("Location (space)" :> location) @@
    ("Physical State"   :> physical_state) @@
    ("chemical_formula" :> chemical_formula) @@
    ("Amount"           :> attributes["field_chemical_amount"]) @@
    ("Units"            :> attributes["field_chemical_unit_of_measure"]) @@
    ("Container ID"     :> attributes["field_chemical_container_id"]) @@
    ("Manufacturer"     :> attributes["field_chemical_product_name"]) @@
    ("Product Name"     :> attributes["field_chemical_product_name"]) @@
    ("Product Number"   :> attributes["field_chemical_product_number"]) @@
    ("Date Received"    :> attributes["field_chemical_received"]) @@
    ("Expiration Date"  :> attributes["field_chemical_expiration"])

\* The chemical-type lookups with PHYSICAL_STATES.get(code, code): a code
\* outside the mapping is passed through as its own label
ChemicalInfoPassThrough(relationships, chemdb_type) ==
    IF "field_chemical_type" \notin DOMAIN relationships THEN Raise("KeyError")
    ELSE LET chemical_type_id == relationships["field_chemical_type"].data.id IN
         IF chemical_type_id \notin DOMAIN chemdb_type THEN Raise("KeyError")
         ELSE LET entry == chemdb_type[chemical_type_id] IN
              IF "field_chemdb_cas_number" \notin DOMAIN entry THEN Raise("KeyError")
              ELSE IF "field_chemdb_physical_state" \notin DOMAIN entry
                   THEN Raise("KeyError")
              ELSE IF "field_chemdb_chemical_formula" \notin DOMAIN entry
                   THEN Raise("KeyError")
              ELSE Return([cas_number |-> entry["field_chemdb_cas_number"],
                           physical_state |->
                               IF entry["field_chemdb_physical_state"]
                                      \in DOMAIN PHYSICAL_STATES
                               THEN PHYSICAL_STATES[entry["field_chemdb_physical_state"]]
                               ELSE entry["field_chemdb_physical_state"],
                           chemical_formula |-> entry["field_chemdb_chemical_formula"]])

\* Lines 49-52: the chemical-type lookups, in statement order
ChemicalInfo(relationships, chemdb_type) ==
    IF "field_chemical_type" \notin DOMAIN relationships THEN Raise("KeyError")
    ELSE LET chemical_type_id == relationships["field_chemical_type"].data.id IN
         IF chemical_type_id \notin DOMAIN chemdb_type THEN Raise("KeyError")
         ELSE LET entry == chemdb_type[chemical_type_id] IN
              IF "field_chemdb_cas_number" \notin DOMAIN entry THEN Raise("KeyError")
              ELSE IF "field_chemdb_physical_state" \notin DOMAIN entry
                   THEN Raise("KeyError")
              ELSE IF entry["field_chemdb_physical_state"] \notin DOMAIN PHYSICAL_STATES
                   THEN Raise("KeyError")
              ELSE IF "field_chemdb_chemical_formula" \notin DOMAIN entry
                   THEN Raise("KeyError")
              ELSE Return([cas_number |-> entry["field_chemdb_cas_number"],
                           physical_state |->
                               PHYSICAL_STATES[entry["field_chemdb_physical_state"]],
                           chemical_formula |-> entry["field_chemdb_chemical_formula"]])

\* The location lookup with .get(id, default): an unresolved space gives ""
LocationInfoWithDefault(relationships, space) ==
    IF "field_chemical_space" \notin DOMAIN relationships THEN Raise("KeyError")
    ELSE LET chemical_space_id == relationships["field_chemical_space"].data.id IN
         IF chemical_space_id \notin DOMAIN space THEN Return("")
         ELSE IF "title" \notin DOMAIN space[chemical_space_id] THEN Raise("KeyError")
         ELSE Return(space[chemical_space_id]["title"])

\* Lines 55-56: the location lookup
LocationInfo(relationships, space) ==
    IF "field_chemical_space" \notin DOMAIN relationships THEN Raise("KeyError")
    ELSE LET chemical_space_id == relationships["field_chemical_space"].data.id IN
         IF chemical_space_id \notin DOMAIN space THEN Raise("KeyError")
         ELSE IF "title" \notin DOMAIN space[chemical_space_id] THEN Raise("KeyError")
         ELSE Return(space[chemical_space_id]["title"])

\* The owner lookup through the last entry of the audience list ([-1])
OwnerInfoLastEntry(relationships, laboratory) ==
    IF "og_audience" \notin DOMAIN relationships THEN Raise("KeyError")
    ELSE LET audience == relationships["og_audience"].data IN
         IF Len(audience) = 0 THEN Raise("IndexError")
         ELSE LET lab_id == audience[Len(audience)].id IN
              IF lab_id \notin DOMAIN laboratory THEN Raise("KeyError")
              ELSE IF "title" \notin DOMAIN laboratory[lab_id] THEN Raise("KeyError")
              ELSE Return(laboratory[lab_id]["title"])

\* Lines 61-62: the owner lookup through the first entry of the audience list
OwnerInfo(relationships, laboratory) ==
    IF "og_audience" \notin DOMAIN relationships THEN Raise("KeyError")
    ELSE LET audience == relationships["og_audience"].data IN
         IF Len(audience) = 0 THEN Raise("IndexError")
         ELSE LET lab_id == audience[1].id IN
              IF lab_id \notin DOMAIN laboratory THEN Raise("KeyError")
              ELSE IF "title" \notin DOMAIN laboratory[lab_id] THEN Raise("KeyError")
              ELSE Return(laboratory[lab_id]["title"])

extract_container_info(row_data, ref) ==
    LET chemical == ChemicalInfo(row_data.relationships, ref.chemdb_type)
        location == LocationInfo(row_data.relationships, ref.space)
        owner    == OwnerInfo(row_data.relationships, ref.laboratory)
    IN  IF Raised(chemical) THEN chemical
        ELSE IF Raised(location) THEN location
        ELSE IF Raised(owner) THEN owner
        ELSE IF ~ (ContainerFields \subseteq DOMAIN row_data.attributes)
             THEN Raise("KeyError")
        ELSE Return(OutputRow(row_data.attributes, chemical.value.cas_number,
                              owner.value, location.value,
                              chemical.value.physical_state,
                              chemical.value.chemical_formula))

----------------------------------------------------------------------------
(* DictWriter over the output file, lines 142-148 *)

\* csv.DictWriter.writerow: the row's values listed in fieldnames order
writerow(rowdict) ==
    [k \in 1..Len(CSV_HEADER) |->
        IF CSV_HEADER[k] \in DOMAIN rowdict THEN rowdict[CSV_HEADER[k]] ELSE ""]

\* csv.DictWriter.writeheader: the fieldnames themselves as the first line
writeheader == CSV_HEADER

\* The output path before the run (nothing there) and after open(outfile, 'w')
NoFile == [exists |-> FALSE, lines |-> << >>]

OpenedFile == [exists |-> TRUE, lines |-> << >>]

----------------------------------------------------------------------------
(* The documents the run is checked on (shapes of the JSON:API export) *)

Auxiliary(id, type, attributes) == [id |-> id, type |-> type, attributes |-> attributes]

IncludedPool ==
    { Auxiliary("T1", "node--chemdb_type",
                ("field_chemdb_cas_number" :> "123-45-6") @@
                ("field_chemdb_chemical_formula" :> "H2O") @@
                ("field_chemdb_physical_state" :> "L") @@
                ("title" :> "Acetone")),
      Auxiliary("T1", "node--chemdb_type",
                ("field_chemdb_cas_number" :> "67-64-1") @@
                ("field_chemdb_chemical_formula" :> "C3H6O") @@
                ("field_chemdb_physical_state" :> "S")),
      Auxiliary("T1", "node--chemdb_type",
                ("field_chemdb_cas_number" :> "123-45-6") @@
                ("field_chemdb_chemical_formula" :> "H2O") @@
                ("field_chemdb_physical_state" :> "X")),
      Auxiliary("T1", "node--chemdb_type",
                ("field_chemdb_cas_number" :> "123-45-6") @@
                ("field_chemdb_chemical_formula" :> "H2O")),
      Auxiliary("T1", "node--chemdb_type",
                ("field_chemdb_chemical_formula" :> "CO2") @@
                ("field_chemdb_physical_state" :> "G")),
      Auxiliary("S1", "node--space",
                ("title" :> "Room 204") @@ ("field_space_building" :> "B1")),
      Auxiliary("G1", "node--laboratory", ("title" :> "Smith Lab")),
      Auxiliary("G2", "node--laboratory", ("title" :> "Jones Lab")),
      Auxiliary("S1", "node--laboratory", ("field_lab_pi" :> "Lee")),
      Auxiliary("T1", "node--user",
                ("field_chemdb_cas_number" :> "000-00-0") @@ ("title" :> "admin")) }

Reference(id) == [data |-> [id |-> id]]

References(ids) == [data |-> [k \in 1..Len(ids) |-> [id |-> ids[k]]]]

AcetoneAttributes ==
    ("field_chemical_product_name" :> "Acetone") @@
    ("field_chemical_amount" :> "500") @@
    ("field_chemical_unit_of_measure" :> "mL") @@
    ("field_chemical_container_id" :> "C-001") @@
    ("field_chemical_product_number" :> "P-99") @@
    ("field_chemical_received" :> "2023-01-01") @@
    ("field_chemical_expiration" :> "2025-01-01")

EthanolAttributes ==
    ("field_chemical_product_name" :> "Ethanol") @@
    ("field_chemical_amount" :> "2") @@
    ("field_chemical_unit_of_measure" :> "L") @@
    ("field_chemical_container_id" :> "C-002") @@
    ("field_chemical_product_number" :> "P-17") @@
    ("field_chemical_received" :> "2024-06-30") @@
    ("field_chemical_expiration" :> "2026-06-30") @@
    ("field_chemical_notes" :> "flammable")

Relationships(type_id, space_id, audience_ids) ==
    ("field_chemical_type" :> Reference(type_id)) @@
    ("field_chemical_space" :> Reference(space_id)) @@
    ("og_audience" :> References(audience_ids))

Container(attributes, relationships) ==
    [attributes |-> attributes, relationships |-> relationships]

ContainerPool ==
    { Container(AcetoneAttributes, Relationships("T1", "S1", <<"G1">>)),
      Container(EthanolAttributes, Relationships("T1", "S1", <<"G2", "G1">>)),
      Container(EthanolAttributes, Relationships("T2", "S1", <<"G1">>)),
      Container(EthanolAttributes, Relationships("T1", "S1", <<"S1", "G1">>)),
      Container(AcetoneAttributes, Relationships("T1", "S1", << >>)),
      Container(AcetoneAttributes,
                ("field_chemical_space" :> Reference("S1")) @@
                ("og_audience" :> References(<<"G1">>))),
      Container([f \in ContainerFields \ {"field_chemical_product_number"} |->
                    AcetoneAttributes[f]],
                Relationships("T1", "S1", <<"G1">>)) }

SeqsUpTo(S, n) == UNION { [1..k -> S] : k \in 0..n }

\* A complete Reference Index source for the pool's containers
FullIncluded ==
    << Auxiliary("S1", "node--space",
                 ("title" :> "Room 204") @@ ("field_space_building" :> "B1")),
       Auxiliary("G2", "node--laboratory", ("title" :> "Jones Lab")),
       Auxiliary("T1", "node--chemdb_type",
                 ("field_chemdb_cas_number" :> "123-45-6") @@
                 ("field_chemdb_chemical_formula" :> "H2O") @@
                 ("field_chemdb_physical_state" :> "L") @@
                 ("title" :> "Acetone")),
       Auxiliary("G1", "node--laboratory", ("title" :> "Smith Lab")) >>

Document(data, included) == ("data" :> data) @@ ("included" :> included)

\* The complete collection with one more record before it and after it
WrappedIncluded ==
    { pre \o FullIncluded \o post :
        pre \in SeqsUpTo(IncludedPool, 1), post \in SeqsUpTo(IncludedPool, 1) }

\* Every auxiliary collection up to MaxIncluded with at most one Container, the
\* wrapped complete collections with at most one Container, every Container
\* list up to MaxData over the complete collection, and the documents that
\* lack one of the two top-level keys
Documents ==
    { Document(data, included) :
        data \in SeqsUpTo(ContainerPool, 1),
        included \in SeqsUpTo(IncludedPool, MaxIncluded) \cup WrappedIncluded }
    \cup
    { Document(data, FullIncluded) : data \in SeqsUpTo(ContainerPool, MaxData) }
    \cup
    { ("included" :> included) : included \in SeqsUpTo(IncludedPool, 1) }
    \cup
    { ("data" :> data) : data \in SeqsUpTo(ContainerPool, 1) }

----------------------------------------------------------------------------
(* process_json_response, lines 129-148 *)

\* Lines 130-131: the parsed document, nothing built or written yet
Init ==
    /\ json_data \in Documents
    /\ reference = EmptyDict
    /\ outfile = NoFile
    /\ pc = "load_reference"
    /\ index = 0
    /\ row = EmptyDict
    /\ exception = "None"
    /\ loads = 0

\* Line 134: reference = load_reference_tables(data=json_data)
LoadReference ==
    /\ pc = "load_reference"
    /\ ~ Raised(load_reference_tables(json_data))
    /\ reference' = load_reference_tables(json_data).value
    /\ loads' = loads + 1
    /\ pc' = "open"
    /\ UNCHANGED <<json_data, outfile, index, row, exception>>

\* Line 134 raising: the run ends before the output file is opened
LoadReferenceRaises ==
    /\ pc = "load_reference"
    /\ Raised(load_reference_tables(json_data))
    /\ exception' = load_reference_tables(json_data).exception
    /\ loads' = loads + 1
    /\ pc' = "raised"
    /\ UNCHANGED <<json_data, reference, outfile, index, row>>

\* Lines 138-142: open(outfile, 'w') creates or truncates the output file
OpenOutput ==
    /\ pc = "open"
    /\ outfile' = OpenedFile
    /\ pc' = "writeheader"
    /\ UNCHANGED <<json_data, reference, index, row, exception, loads>>

\* Lines 143-144: dict_writer.writeheader()
WriteHeader ==
    /\ pc = "writeheader"
    /\ outfile' = [outfile EXCEPT !.lines = Append(@, writeheader)]
    /\ pc' = "for"
    /\ UNCHANGED <<json_data, reference, index, row, exception, loads>>

\* Line 145: the next container of json_data['data']
ForNext ==
    /\ pc = "for"
    /\ "data" \in DOMAIN json_data
    /\ index < Len(json_data["data"])
    /\ index' = index + 1
    /\ pc' = "extract"
    /\ UNCHANGED <<json_data, reference, outfile, row, exception, loads>>

\* Line 145 exhausted: the with block closes the file, the run completes
ForEnd ==
    /\ pc = "for"
    /\ "data" \in DOMAIN json_data
    /\ index = Len(json_data["data"])
    /\ pc' = "done"
    /\ UNCHANGED <<json_data, reference, outfile, index, row, exception, loads>>

\* Line 145 raising: json_data['data'] is evaluated after the header was written;
\* the with block closes the file with what was written and the error propagates
ForRaises ==
    /\ pc = "for"
    /\ "data" \notin DOMAIN json_data
    /\ exception' = "KeyError"
    /\ pc' = "raised"
    /\ UNCHANGED <<json_data, reference, outfile, index, row, loads>>

\* The extractor taking its chemical-type entry out of the index (pop)
ExtractRowPopping ==
    /\ pc = "extract"
    /\ LET result == extract_container_info(json_data["data"][index], reference)
           chemical_type_id ==
               json_data["data"][index].relationships["field_chemical_type"].data.id
       IN
         /\ ~ Raised(result)
         /\ row' = result.value
         /\ reference' =
               [reference EXCEPT !.chemdb_type =
                   [id \in (DOMAIN reference.chemdb_type) \ {chemical_type_id} |->
                       reference.chemdb_type[id]]]
    /\ pc' = "writerow"
    /\ UNCHANGED <<json_data, outfile, index, exception, loads>>

\* Line 146: row = extract_container_info(row_data=container, reference=reference)
ExtractRow ==
    /\ pc = "extract"
    /\ LET result == extract_container_info(json_data["data"][index], reference) IN
         /\ ~ Raised(result)
         /\ row' = result.value
    /\ pc' = "writerow"
    /\ UNCHANGED <<json_data, reference, outfile, index, exception, loads>>

\* Line 146 raising: the with block closes the file with the rows written so far
ExtractRaises ==
    /\ pc = "extract"
    /\ LET result == extract_container_info(json_data["data"][index], reference) IN
         /\ Raised(result)
         /\ exception' = result.exception
    /\ pc' = "raised"
    /\ UNCHANGED <<json_data, reference, outfile, index, row, loads>>

\* The row put right after the header instead of at the end of the file
WriteRowAfterHeader ==
    /\ pc = "writerow"
    /\ outfile' = [outfile EXCEPT
                      !.lines = <<Head(@)>> \o <<writerow(row)>> \o Tail(@)]
    /\ pc' = "for"
    /\ UNCHANGED <<json_data, reference, index, row, exception, loads>>

\* Line 148: dict_writer.writerow(row)
WriteRow ==
    /\ pc = "writerow"
    /\ outfile' = [outfile EXCEPT !.lines = Append(@, writerow(row))]
    /\ pc' = "for"
    /\ UNCHANGED <<json_data, reference, index, row, exception, loads>>

Next ==
    \/ LoadReference
    \/ LoadReferenceRaises
    \/ OpenOutput
    \/ WriteHeader
    \/ ForNext
    \/ ForEnd
    \/ ForRaises
    \/ ExtractRow
    \/ ExtractRaises
    \/ WriteRow

Spec == Init /\ [][Next]_vars

----------------------------------------------------------------------------
(* Vocabulary of the properties, stated from the document alone *)

HasData == "data" \in DOMAIN json_data

HasIncluded == "included" \in DOMAIN json_data

\* The Reference Index has been returned by the builder
IndexBuilt == pc \notin {"load_reference"} /\ HasIncluded

\* The Row Extractor has just been called on container number index
ExtractReturned == pc = "writerow"

ExtractRaised == pc = "raised" /\ outfile.exists /\ HasData

ExtractCalled == ExtractReturned \/ ExtractRaised

Current == json_data["data"][index]

HeaderSet == {CSV_HEADER[k] : k \in 1..Len(CSV_HEADER)}

TypeGiven(c) == "field_chemical_type" \in DOMAIN c.relationships

SpaceGiven(c) == "field_chemical_space" \in DOMAIN c.relationships

AudienceGiven(c) ==
    /\ "og_audience" \in DOMAIN c.relationships
    /\ Len(c.relationships["og_audience"].data) >= 1

TypeId(c) == c.relationships["field_chemical_type"].data.id

SpaceId(c) == c.relationships["field_chemical_space"].data.id

FirstAudienceId(c) == c.relationships["og_audience"].data[1].id

\* The three identifiers are given and each has an entry in the mapping of its kind
Resolves(c, ref) ==
    /\ TypeGiven(c) /\ TypeId(c) \in DOMAIN ref.chemdb_type
    /\ SpaceGiven(c) /\ SpaceId(c) \in DOMAIN ref.space
    /\ AudienceGiven(c) /\ FirstAudienceId(c) \in DOMAIN ref.laboratory

\* One of the given identifiers has no entry in the mapping of its kind
Unresolved(c, ref) ==
    \/ TypeGiven(c) /\ TypeId(c) \notin DOMAIN ref.chemdb_type
    \/ SpaceGiven(c) /\ SpaceId(c) \notin DOMAIN ref.space
    \/ AudienceGiven(c) /\ FirstAudienceId(c) \notin DOMAIN ref.laboratory

StateCodeKnown(c, ref) ==
    /\ "field_chemdb_physical_state" \in DOMAIN ref.chemdb_type[TypeId(c)]
    /\ ref.chemdb_type[TypeId(c)]["field_chemdb_physical_state"] \in {"S", "L", "G"}

\* The resolved entries and the Container carry every attribute the row reads
AttributesPresent(c, ref) ==
    /\ {"field_chemdb_cas_number", "field_chemdb_chemical_formula"}
           \subseteq DOMAIN ref.chemdb_type[TypeId(c)]
    /\ "title" \in DOMAIN ref.space[SpaceId(c)]
    /\ "title" \in DOMAIN ref.laboratory[FirstAudienceId(c)]
    /\ {"field_chemical_product_name", "field_chemical_amount",
        "field_chemical_unit_of_measure", "field_chemical_container_id",
        "field_chemical_product_number", "field_chemical_received",
        "field_chemical_expiration"} \subseteq DOMAIN c.attributes

StateLabel(code) ==
    CASE code = "S" -> "Solid"
      [] code = "L" -> "Liquid"
      [] code = "G" -> "Gas"

\* The Output Row the specification describes, column by column
RowAsSpecified(r, c, ref) ==
    /\ DOMAIN r = HeaderSet
    /\ Cardinality(DOMAIN r) = 14
    /\ r["Chemical Name"] = c.attributes["field_chemical_product_name"]
    /\ r["CAS Number"] = ref.chemdb_type[TypeId(c)]["field_chemdb_cas_number"]
    /\ r["Group Name"] = ref.laboratory[FirstAudienceId(c)]["title"]
    /\ r["Location (space)"] = ref.space[SpaceId(c)]["title"]
    /\ r["Physical State"] =
           StateLabel(ref.chemdb_type[TypeId(c)]["field_chemdb_physical_state"])
    /\ r["chemical_formula"] =
           ref.chemdb_type[TypeId(c)]["field_chemdb_chemical_formula"]
    /\ r["Amount"] = c.attributes["field_chemical_amount"]
    /\ r["Units"] = c.attributes["field_chemical_unit_of_measure"]
    /\ r["Container ID"] = c.attributes["field_chemical_container_id"]
    /\ r["Manufacturer"] = c.attributes["field_chemical_product_name"]
    /\ r["Product Name"] = c.attributes["field_chemical_product_name"]
    /\ r["Product Number"] = c.attributes["field_chemical_product_number"]
    /\ r["Date Received"] = c.attributes["field_chemical_received"]
    /\ r["Expiration Date"] = c.attributes["field_chemical_expiration"]

\* The same row as a line of the output file, in the column order of section 6
LineAsSpecified(c, ref) ==
    << c.attributes["field_chemical_product_name"],
       ref.chemdb_type[TypeId(c)]["field_chemdb_cas_number"],
       ref.laboratory[FirstAudienceId(c)]["title"],
       ref.space[SpaceId(c)]["title"],
       StateLabel(ref.chemdb_type[TypeId(c)]["field_chemdb_physical_state"]),
       ref.chemdb_type[TypeId(c)]["field_chemdb_chemical_formula"],
       c.attributes["field_chemical_amount"],
       c.attributes["field_chemical_unit_of_measure"],
       c.attributes["field_chemical_container_id"],
       c.attributes["field_chemical_product_name"],
       c.attributes["field_chemical_product_name"],
       c.attributes["field_chemical_product_number"],
       c.attributes["field_chemical_received"],
       c.attributes["field_chemical_expiration"] >>

\* The scenario of section 8: T1/S1/[G1], Acetone
ScenarioContainer(c) ==
    /\ c.attributes = AcetoneAttributes
    /\ Resolves(c, [chemdb_type |-> [i \in {"T1"} |-> EmptyDict],
                    space |-> [i \in {"S1"} |-> EmptyDict],
                    laboratory |-> [i \in {"G1"} |-> EmptyDict]])
    /\ Len(c.relationships["og_audience"].data) = 1

ScenarioIndex(ref) ==
    /\ "T1" \in DOMAIN ref.chemdb_type
    /\ ref.chemdb_type["T1"] =
           ("field_chemdb_cas_number" :> "123-45-6") @@
           ("field_chemdb_chemical_formula" :> "H2O") @@
           ("field_chemdb_physical_state" :> "L")
    /\ "S1" \in DOMAIN ref.space
    /\ ref.space["S1"] = ("title" :> "Room 204")
    /\ "G1" \in DOMAIN ref.laboratory
    /\ ref.laboratory["G1"] = ("title" :> "Smith Lab")

ScenarioLine ==
    << "Acetone", "123-45-6", "Smith Lab", "Room 204", "Liquid", "H2O", "500",
       "mL", "C-001", "Acetone", "Acetone", "P-99", "2023-01-01", "2025-01-01" >>

\* The Container with its audience list cut down to the first entry
FirstAudienceOnly(c) ==
    [c EXCEPT !.relationships =
        [rel \in DOMAIN c.relationships |->
            IF rel = "og_audience"
            THEN [data |-> SubSeq(c.relationships[rel].data, 1, 1)]
            ELSE c.relationships[rel]]]

\* What C1 promises of the call that has just been made on Current
RowPromised ==
    /\ ExtractReturned
    /\ RowAsSpecified(row, Current, reference)
    /\ extract_container_info(FirstAudienceOnly(Current), reference) = Return(row)
    /\ (ScenarioContainer(Current) /\ ScenarioIndex(reference)
            => writerow(row) = ScenarioLine)

----------------------------------------------------------------------------
(* C1 *)

\* C1 as stated: whenever the three identifiers of the Container resolve and
\* the physical-state code is S, L or G, the extractor returns the 14-column
\* row described by the specification (first audience entry only; the
\* scenario's row is exactly the expected one).
C1_AsStated ==
    ExtractCalled /\ Resolves(Current, reference)
                  /\ StateCodeKnown(Current, reference)
        => RowPromised

\* C1 amended: the same, provided the referenced entries carry the attributes
\* the row reads (CAS number, formula, titles) and the Container carries its
\* seven attributes.
C1_RowOfResolvedContainer ==
    ExtractCalled /\ Resolves(Current, reference)
                  /\ StateCodeKnown(Current, reference)
                  /\ AttributesPresent(Current, reference)
        => RowPromised

\* The scenario's row has been written and a Container whose audience list has
\* two entries with different titles has just been extracted.
C1_Witness ==
    /\ ExtractReturned
    /\ index = 2
    /\ outfile.lines[2] = ScenarioLine
    /\ Len(Current.relationships["og_audience"].data) = 2
    /\ Current.relationships["og_audience"].data[2].id \in DOMAIN reference.laboratory
    /\ row["Group Name"] #
           reference.laboratory[Current.relationships["og_audience"].data[2].id]["title"]

----------------------------------------------------------------------------
(* C2, C3 *)

Terminal == pc \in {"done", "raised"}

\* Every Container of the document has a row: its references resolve to
\* well-formed entries and it carries its own attributes (section 3)
ValidDocument ==
    /\ HasData
    /\ HasIncluded
    /\ \A i \in 1..Len(json_data["data"]) :
          /\ Resolves(json_data["data"][i], reference)
          /\ StateCodeKnown(json_data["data"][i], reference)
          /\ AttributesPresent(json_data["data"][i], reference)

\* The header followed by the specified row of each Container, in input order
FullOutput ==
    /\ Len(outfile.lines) = 1 + Len(json_data["data"])
    /\ outfile.lines[1] = CSV_HEADER
    /\ \A i \in 1..Len(json_data["data"]) :
          outfile.lines[i + 1] = LineAsSpecified(json_data["data"][i], reference)

\* C2: a run on a valid document completes, and the rows after the header are
\* as many as the Containers of data, the i-th row being the Output Row of the
\* i-th Container; an empty data list leaves the header row alone.
C2_RowPerContainerInOrder ==
    Terminal /\ ValidDocument
        => /\ pc = "done"
           /\ FullOutput
           /\ (Len(json_data["data"]) = 0 /\ Len(json_data["included"]) > 0
                  => outfile.lines = <<CSV_HEADER>>)

\* A completed run over two Containers whose rows differ.
C2_Witness ==
    /\ pc = "done"
    /\ ValidDocument
    /\ Len(json_data["data"]) = 2
    /\ Len(outfile.lines) = 3
    /\ outfile.lines[2] # outfile.lines[3]

\* C3 as stated: when the run has ended, the output file either was not
\* written by this run or holds the full valid output (header plus one row
\* per Container); never the header alone or a strict prefix of the rows.
C3_NoPartialOutput ==
    Terminal => \/ outfile = NoFile
                \/ ValidDocument /\ FullOutput

----------------------------------------------------------------------------
(* C4 *)

\* C4: a Container one of whose identifiers has no entry in the mapping of its
\* kind makes the extractor raise; the run never passes that Container, ends
\* with the lookup error when it reaches it, and the file never holds a row
\* for it or for a later Container.
C4_UnresolvedAbortsRun ==
    IndexBuilt /\ HasData
        => \A j \in 1..Len(json_data["data"]) :
              Unresolved(json_data["data"][j], reference)
                  => /\ Raised(extract_container_info(json_data["data"][j], reference))
                     /\ index <= j
                     /\ Len(outfile.lines) <= j
                     /\ (index = j => pc \in {"extract", "raised"})
                     /\ (index = j /\ pc = "raised" => exception = "KeyError")

\* The run stopped at the first of two Containers, whose reference is
\* unresolved, although the second would have given a row.
C4_Witness ==
    /\ ExtractRaised
    /\ index = 1
    /\ Len(json_data["data"]) = 2
    /\ Unresolved(json_data["data"][1], reference)
    /\ Resolves(json_data["data"][2], reference)
    /\ StateCodeKnown(json_data["data"][2], reference)
    /\ AttributesPresent(json_data["data"][2], reference)
    /\ outfile.lines = <<CSV_HEADER>>

----------------------------------------------------------------------------
(* C5 *)

\* C5: the state mapping has exactly the keys S, L, G with labels Solid,
\* Liquid, Gas; a returned row carries the label of the entry's code, and an
\* entry with any other code, or with no code at all, makes the extraction
\* raise without a row.
C5_PhysicalStateMapping ==
    /\ DOMAIN PHYSICAL_STATES = {"S", "L", "G"}
    /\ PHYSICAL_STATES["S"] = "Solid"
    /\ PHYSICAL_STATES["L"] = "Liquid"
    /\ PHYSICAL_STATES["G"] = "Gas"
    /\ ExtractCalled /\ TypeGiven(Current)
                     /\ TypeId(Current) \in DOMAIN reference.chemdb_type
          => LET entry == reference.chemdb_type[TypeId(Current)] IN
             /\ "field_chemdb_physical_state" \notin DOMAIN entry
                    => ExtractRaised /\ exception = "KeyError"
                                     /\ Len(outfile.lines) = index
             /\ "field_chemdb_physical_state" \in DOMAIN entry
                 /\ entry["field_chemdb_physical_state"] \notin {"S", "L", "G"}
                    => ExtractRaised /\ exception = "KeyError"
                                     /\ Len(outfile.lines) = index
             /\ ExtractReturned
                    => row["Physical State"] =
                           StateLabel(entry["field_chemdb_physical_state"])

\* The extraction raised for a Container whose only defect is the code X.
C5_Witness ==
    /\ ExtractRaised
    /\ Resolves(Current, reference)
    /\ AttributesPresent(Current, reference)
    /\ "field_chemdb_physical_state" \in DOMAIN reference.chemdb_type[TypeId(Current)]
    /\ reference.chemdb_type[TypeId(Current)]["field_chemdb_physical_state"] = "X"

----------------------------------------------------------------------------
(* C6 *)

EmptyIndex == [chemdb_type |-> EmptyDict, space |-> EmptyDict, laboratory |-> EmptyDict]

LoadRaised == pc = "raised" /\ ~ outfile.exists

\* C6 as stated: for an empty and for a missing included collection the
\* builder returns three empty mappings rather than failing.
C6_AsStated ==
    pc # "load_reference" /\ (~ HasIncluded \/ Len(json_data["included"]) = 0)
        => ~ LoadRaised /\ reference = EmptyIndex

\* C6 amended: for an empty included collection the builder returns three
\* empty mappings; for a document without included it raises a KeyError,
\* nothing is returned and the output file is not opened.
C6_EmptyYieldsEmptyMissingRaises ==
    pc # "load_reference"
        => /\ HasIncluded /\ Len(json_data["included"]) = 0
                => ~ LoadRaised /\ loads = 1 /\ reference = EmptyIndex
           /\ ~ HasIncluded
                => /\ LoadRaised
                   /\ exception = "KeyError"
                   /\ reference = EmptyDict
                   /\ outfile = NoFile

\* The builder has returned for an empty included collection.
C6_Witness ==
    /\ pc = "open"
    /\ HasIncluded
    /\ Len(json_data["included"]) = 0
    /\ reference = EmptyIndex

----------------------------------------------------------------------------
(* C7 *)

\* C7: in every returned row, and in every row written to the file, Chemical
\* Name, Manufacturer and Product Name hold the Container's product name.
C7_NameColumnsEqual ==
    /\ ExtractReturned
          => /\ row["Chemical Name"] = Current.attributes["field_chemical_product_name"]
             /\ row["Manufacturer"] = row["Chemical Name"]
             /\ row["Product Name"] = row["Chemical Name"]
    /\ \A k \in 2..Len(outfile.lines) :
          /\ outfile.lines[k][1] = json_data["data"][k - 1].attributes["field_chemical_product_name"]
          /\ outfile.lines[k][10] = outfile.lines[k][1]
          /\ outfile.lines[k][11] = outfile.lines[k][1]

\* A second row has been returned whose product name differs from the first
\* row's and from its own product number.
C7_Witness ==
    /\ ExtractReturned
    /\ index = 2
    /\ row["Product Name"] # outfile.lines[2][11]
    /\ row["Product Name"] # row["Product Number"]

----------------------------------------------------------------------------
(* C8 *)

\* C8: the builder is called once; from its return on no step changes the
\* index; and whenever the output file is open or the extractor is at work
\* the index is the one the builder returned for the document.
C8_IndexBuiltOnceThenReadOnly ==
    [][ /\ loads' <= 1
        /\ (pc # "load_reference" => reference' = reference /\ loads' = loads)
        /\ (outfile'.exists \/ pc' \in {"extract", "writerow", "done"}
               => /\ loads' = 1
                  /\ reference' = load_reference_tables(json_data').value) ]_vars

\* A run over two Containers has completed with the index as built.
C8_Witness ==
    /\ pc = "done"
    /\ index = 2
    /\ loads = 1
    /\ reference = load_reference_tables(json_data).value
    /\ reference.chemdb_type # EmptyDict

----------------------------------------------------------------------------
(* C9, C10 *)

KindRecords(kind) ==
    {k \in 1..Len(json_data["included"]) : json_data["included"][k].type = kind}

\* m[id] is the record's attributes cut down to the enumerated fields
EntryOf(entry, record, fields) ==
    /\ DOMAIN entry = (DOMAIN record.attributes) \cap fields
    /\ \A a \in DOMAIN entry : entry[a] = record.attributes[a]

MappingAsSpecified(m, kind, fields) ==
    /\ DOMAIN m = {json_data["included"][k].id : k \in KindRecords(kind)}
    /\ \A id \in DOMAIN m :
          /\ DOMAIN m[id] \subseteq fields
          /\ \E k \in KindRecords(kind) :
                /\ json_data["included"][k].id = id
                /\ EntryOf(m[id], json_data["included"][k], fields)

\* C9: each mapping's keys are the identifiers of the records of its kind,
\* records of other kinds are in no mapping and raise nothing, and each entry
\* holds the enumerated attributes of a record of that kind and identifier,
\* and nothing else.
C9_MappingsPerKind ==
    IndexBuilt
        => /\ ~ LoadRaised
           /\ DOMAIN reference = {"chemdb_type", "space", "laboratory"}
           /\ MappingAsSpecified(reference.chemdb_type, "node--chemdb_type",
                  {"field_chemdb_cas_number", "field_chemdb_chemical_formula",
                   "field_chemdb_physical_state"})
           /\ MappingAsSpecified(reference.space, "node--space", {"title"})
           /\ MappingAsSpecified(reference.laboratory, "node--laboratory", {"title"})

\* The index was built from a collection holding a record of an unrecognized
\* kind, a chemical type with an attribute to drop and a space with one.
C9_Witness ==
    /\ pc = "open"
    /\ HasIncluded
    /\ KindRecords("node--user") # {}
    /\ \E k \in KindRecords("node--chemdb_type") :
          "title" \in DOMAIN json_data["included"][k].attributes
    /\ \E k \in KindRecords("node--space") :
          "field_space_building" \in DOMAIN json_data["included"][k].attributes
    /\ DOMAIN reference.chemdb_type = {"T1"}
    /\ DOMAIN reference.space = {"S1"}
    /\ reference.laboratory = EmptyDict

\* The last record of the kind with the identifier, in collection order
LastRecord(kind, id) ==
    LET same == {k \in KindRecords(kind) : json_data["included"][k].id = id}
    IN  json_data["included"][CHOOSE k \in same : \A j \in same : j <= k]

LastWins(m, kind, fields) ==
    \A id \in DOMAIN m : EntryOf(m[id], LastRecord(kind, id), fields)

\* C10: records of one kind sharing an identifier raise nothing and leave one
\* entry, that of the last of them in collection order, and a returned row
\* carries the values of those last records.
C10_LastDuplicateWins ==
    IndexBuilt
        => /\ ~ LoadRaised
           /\ LastWins(reference.chemdb_type, "node--chemdb_type",
                  {"field_chemdb_cas_number", "field_chemdb_chemical_formula",
                   "field_chemdb_physical_state"})
           /\ LastWins(reference.space, "node--space", {"title"})
           /\ LastWins(reference.laboratory, "node--laboratory", {"title"})
           /\ ExtractReturned
                => /\ row["CAS Number"] =
                          LastRecord("node--chemdb_type", TypeId(Current))
                              .attributes["field_chemdb_cas_number"]
                   /\ row["Location (space)"] =
                          LastRecord("node--space", SpaceId(Current)).attributes["title"]
                   /\ row["Group Name"] =
                          LastRecord("node--laboratory", FirstAudienceId(Current))
                              .attributes["title"]

\* A row has been returned whose CAS number is that of the later of two
\* chemical-type records with the Container's identifier and differs from the
\* earlier one's.
C10_Witness ==
    /\ ExtractReturned
    /\ \E a, b \in KindRecords("node--chemdb_type") :
          /\ a < b
          /\ json_data["included"][a].id = TypeId(Current)
          /\ json_data["included"][b].id = TypeId(Current)
          /\ "field_chemdb_cas_number" \in DOMAIN json_data["included"][a].attributes
          /\ "field_chemdb_cas_number" \in DOMAIN json_data["included"][b].attributes
          /\ row["CAS Number"] =
                 json_data["included"][b].attributes["field_chemdb_cas_number"]
          /\ row["CAS Number"] #
                 json_data["included"][a].attributes["field_chemdb_cas_number"]

====
